---- MODULE Spec2Model ----
(***************************************************************************)
(* ExamPrep-AI: the supervisor-routed agent graph (graph/multi_agent_graph *)
(* .py), the function that runs it (main.py run_graph), the HTTP handlers  *)
(* around it (main.py /upload, /chat), the question-answering agent        *)
(* (agents/qa_agent.py) and the storage tool of the worker agents          *)
(* (tools/analysis_storage_tool.py).                                       *)
(*                                                                         *)
(* Specifications: Spec (uploads and their runs), FairSpec (one upload,    *)
(* with fairness of the run's steps), SpecServer (all handlers), SpecChat  *)
(* (the chat handler), SpecAnswer (calls of QAAgent.answer), SpecStore     *)
(* (the calls of the storage tool), SpecDoc (calls of process_document,    *)
(* tools/document_processor_tool.py).                                      *)
(*                                                                         *)
(* The language models behind the agents are the environment: what the     *)
(* supervisor writes and what a worker returns are inputs, drawn from the  *)
(* sets SupOutputs and WorkerUses.                                         *)
(***************************************************************************)
EXTENDS Integers, Sequences, FiniteSets, TLC

VARIABLES
    session_state,  \* main.py session_state: file_path, youtube_url, chat_history
    qa_history,     \* qa_agent.history (one QAAgent for the whole process)
    llm_in,         \* the message list of the latest llm.invoke of QAAgent.answer
    response,       \* the latest HTTP response
    requests,       \* number of requests received
    pc,             \* "idle" | "stream" (inside compiled_graph.stream) | "finished"
    messages,       \* the graph state's "messages" channel (committed writes)
    step,           \* the graph runtime's superstep counter
    next,           \* the node the next superstep runs ("__end__": none)
    nodes,          \* the nodes invoked by this run, in order
    decision,       \* what decide_next did on its latest call
    error,          \* the exception run_graph caught ("none": none)
    fragments,      \* run_graph's agent_response_fragments
    result,         \* what run_graph returned to its caller
    llm_prev,       \* the supervisor model's previous output in this run
    llm_free,       \* model outputs still drawn freely (see MaxFree)
    vs,             \* AnalysisStorageTool.vs: the records of the Chroma collection
    filter_kw,      \* the installed similarity_search takes the keyword `filter`
    tool_out,       \* the latest call of _store_impl or _retrieve_impl
    doc_out         \* the latest call of process_document or store_metadata

serverVars == <<session_state, qa_history, llm_in, response, requests>>
runVars == <<pc, messages, step, next, nodes, decision, error, fragments, result>>
envVars == <<llm_prev, llm_free>>
storeVars == <<vs, filter_kw, tool_out, doc_out>>
vars == <<serverVars, runVars, envVars, storeVars>>

---------------------------------------------------------------------------
(* Bounds of the model (MaxRecords: with the storage tool's calls).        *)

\* The models' first MaxFree outputs are drawn freely: the supervisor's from
\* SupOutputs, a worker's tool calls from WorkerUses. After that the
\* supervisor repeats its previous output or ends the workflow, and a worker
\* answers without a tool call.
MaxFree == 2
\* The same, in the specification of the HTTP handlers.
ServerFree == 2
\* Requests the server receives.
MaxRequests == 2
\* Records the collection holds when a call of a tool that adds to it is
\* still followed.
MaxRecords == 2

---------------------------------------------------------------------------
(* Python values.                                                          *)

None == "None"

\* A str: `core` with `lead` leading and `trail` trailing whitespace
\* characters; `upper` says that core holds upper-case letters (core itself
\* is written in lower case).
Str(lead, core, upper, trail) ==
    [lead |-> lead, core |-> core, upper |-> upper /\ core # "", trail |-> trail]

Lit(core) == Str(0, core, FALSE, 0)

\* str.strip()
Strip(s) == [s EXCEPT !.lead = 0, !.trail = 0]

Lower_Kept(s) == s
\* str.lower()
Lower(s) == [s EXCEPT !.upper = FALSE]

\* bool(s) of a str: non-empty
Truthy(s) == s.lead + s.trail > 0 \/ s.core # ""

\* A JSON value as json.loads returns it. t: the Python type. For a dict,
\* `has` says whether it holds the key "next_agent" and `na` is that value
\* (vt: its type; str: the value when it is a str).
PyVal(vt, s) == [vt |-> vt, str |-> s]
StrVal(s) == PyVal("str", s)
Json(t, has, na) == [t |-> t, has |-> has, na |-> na]
Obj(na) == Json("dict", TRUE, na)
ObjNoNext == Json("dict", FALSE, PyVal("NoneType", Lit("")))
NonObj(t) == Json(t, FALSE, PyVal("NoneType", Lit("")))
\* No JSON reading: json.loads raises JSONDecodeError on the text.
NotJson == NonObj("invalid")

\* A message content: the text (its parts, as an f-string gives them) and
\* the JSON value the text denotes (NotJson when it is no JSON document).
Content(parts, json) == [parts |-> parts, json |-> json]
Text(parts) == Content(parts, NotJson)
JsonText(json) == Content(<<>>, json)

\* langchain_core messages
Msg(type, name, content) == [type |-> type, name |-> name, content |-> content]
HumanMessage(content) == Msg("human", None, content)
AIMessage(name, content) == Msg("ai", name, content)
ToolMessage(name, content) == Msg("tool", name, content)

Last(s) == s[Len(s)]

---------------------------------------------------------------------------
(* The agent registry and the graph built from it.                         *)

SUPERVISOR == "supervisor_agent"
END == "__end__"

\* main.py: the keys of `agents`
AgentNames ==
    { "supervisor_agent", "document_ingestion_agent", "summarizer_agent",
      "pyq_syllabus_analysis_agent", "youtube_video_summarizer_agent",
      "store_analysis_agent" }

Workers == AgentNames \ {SUPERVISOR}

\* create_agent of each class: the name= the agent is built with, which the
\* agent writes on the AI messages it returns. (agents/StoreAnalysisAgent is
\* no file of the source tree; its node has no route and never runs.)
AgentName ==
    [node \in AgentNames |->
        CASE node = "document_ingestion_agent" -> "document_processor_agent"
          [] node = "pyq_syllabus_analysis_agent" -> "pyq_syllabus_analyser_agent"
          [] node = "youtube_video_summarizer_agent" -> "youtube_summarizer_agent"
          [] OTHER -> node]

\* the tools each agent is built with, by their names
Tools ==
    [node \in AgentNames |->
        CASE node = "document_ingestion_agent"
                -> {"process_document", "extract_text", "store_metadata"}
          [] node \in {"summarizer_agent", "pyq_syllabus_analysis_agent"}
                -> {"store_analysis_result"}
          [] node = "youtube_video_summarizer_agent"
                -> {"get_youtube_transcript", "store_analysis_result"}
          [] OTHER -> {}]

\* build_graph: the path map of the supervisor's conditional edges
PathKeys ==
    { "document_ingestion_agent", "summarizer_agent",
      "pyq_syllabus_analysis_agent", "youtube_video_summarizer_agent", "end" }

PathMap_Summarizer ==
    [k \in PathKeys |-> IF k = "end" THEN END
                        ELSE IF k = "document_ingestion_agent" THEN "summarizer_agent"
                        ELSE k]
PathMap == [k \in PathKeys |-> IF k = "end" THEN END ELSE k]

EdgeFrom_ToEnd(name) == END
\* build_graph: the edge out of every agent but the supervisor
EdgeFrom(name) == SUPERVISOR

\* compiled_graph.stream(input_state) passes no config: the graph runtime's
\* default recursion limit, in supersteps.
RecursionLimit == 25

\* The runtime's loop starts at step -1, takes stop = step + limit + 1 and
\* runs the input and START in steps -1 and 0; the first agent runs in step 1.
FirstStep == 1
Stop_OneMore == FirstStep - 2 + RecursionLimit + 2
Stop == FirstStep - 2 + RecursionLimit + 1

\* SupervisorAgent.create_agent: the names the system prompt lists under
\* AVAILABLE AGENTS (its RESPONSE FORMAT lists them without
\* store_analysis_agent)
PromptAgents ==
    { "document_ingestion_agent", "summarizer_agent",
      "pyq_syllabus_analysis_agent", "youtube_summarizer_agent",
      "store_analysis_agent", "end" }

---------------------------------------------------------------------------
(* decide_next                                                             *)

\* json.loads(content): the value, or NotJson for JSONDecodeError
JsonLoads(content) == content.json

Returned(s) == [raised |-> "none", ret |-> s]
Raised(e) == [raised |-> e, ret |-> Lit("")]
NoDecision == Raised("not called")

\* dict.get("next_agent", "")
GetNextAgent(d) == IF d.has THEN d.na ELSE StrVal(Lit(""))

\* decide_next(state): state is the list of messages. Leading and trailing
\* whitespace of the content is no part of its JSON reading, so the
\* content's own strip() changes nothing here.
DecideNext(state) ==
    LET last_msg == Last(state) IN
    IF last_msg.type = "ai"
    THEN LET d == JsonLoads(last_msg.content) IN
         IF d.t = "invalid" THEN Returned(Lit("end"))
         ELSE IF d.t # "dict" THEN Raised("AttributeError")
         ELSE IF GetNextAgent(d).vt # "str" THEN Raised("AttributeError")
         ELSE LET next_agent == Strip(GetNextAgent(d).str) IN
              IF Truthy(next_agent)
              THEN Returned(Lower(next_agent))
              ELSE Returned(Lit("end"))
    ELSE Returned(Lit("end"))

\* The conditional edge: the path map's entry for what decide_next
\* returned, or KeyError when the map has no such key.
Destination(r) ==
    IF \E k \in PathKeys : Lit(k) = r
    THEN PathMap[CHOOSE k \in PathKeys : Lit(k) = r]
    ELSE "KeyError"

---------------------------------------------------------------------------
(* The environment: what the supervisor's model writes.                    *)

RouteTo(s) == JsonText(Obj(StrVal(s)))
EndOutput == RouteTo(Lit("end"))
NoOutput == Text(<<"(no output yet)">>)

\* {"next_agent": "<a routable agent>", ...}, one spelled " Summarizer_Agent "
ContinueOutputs ==
    { RouteTo(Lit(a)) : a \in PathKeys \ {"end"} }
        \cup { RouteTo(Str(1, "summarizer_agent", TRUE, 1)) }

\* "end", "END", "" and " "
EndOutputs ==
    { EndOutput, RouteTo(Str(0, "end", TRUE, 0)), RouteTo(Lit("")),
      RouteTo(Str(1, "", FALSE, 1)) }

\* names the path map does not hold: a registry key without a route, the
\* supervisor itself, the name the supervisor's prompt gives the video agent,
\* and a name of no agent
UnroutedOutputs ==
    { RouteTo(Lit(a)) : a \in { "store_analysis_agent", "supervisor_agent",
                                "youtube_summarizer_agent", "research_agent" } }

\* JSON of another shape: no next_agent, a next_agent that is no string, a
\* document that is no object
ShapeOutputs ==
    { JsonText(ObjNoNext) }
        \cup { JsonText(Obj(PyVal(t, Lit("")))) : t \in {"int", "NoneType", "list"} }
        \cup { JsonText(NonObj(t)) : t \in {"list", "str", "int", "NoneType"} }

\* text that is no JSON: prose, the empty text, JSON in a markdown fence
ProseOutputs ==
    { Text(<<"sure, let's go with summarizer">>), Text(<<>>),
      Text(<<"(markdown fence)", "{next_agent: end}", "(markdown fence)">>) }

SupOutputs ==
    ContinueOutputs \cup EndOutputs \cup UnroutedOutputs \cup ShapeOutputs
        \cup ProseOutputs

\* The outputs the supervisor's model may write now.
LlmChoices ==
    IF llm_free > 0 THEN SupOutputs ELSE {llm_prev, EndOutput} \cap SupOutputs

---------------------------------------------------------------------------
(* tools/analysis_storage_tool.py: AnalysisStorageTool                     *)

\* A dict is a function from its keys to its values. dict.get(key)
Get(d, key) == IF key \in DOMAIN d THEN d[key] ELSE None

\* d.update(other): the entries of other win
Update(d, other) == other @@ d

\* An Optional[dict] argument: None, or the dict
NoDict == [none |-> TRUE, d |-> <<>>]
Dict(d) == [none |-> FALSE, d |-> d]

\* bool(x) of an Optional[dict]: neither None nor empty
DictTruthy(x) == ~x.none /\ DOMAIN x.d # {}

\* The `result` argument: a str, or a dict or list. `str`: what str(result)
\* gives; `json`: what json.dumps(result, ensure_ascii=False) gives.
PyResult(t, str, json) == [t |-> t, str |-> str, json |-> json]

\* _store_impl: text_repr
TextRepr(value) ==
    IF value.t \in {"dict", "list"} THEN value.json ELSE value.str

\* _store_impl: meta
Meta(agent_name, result_type, doc_id, timestamp, metadata) ==
    LET meta == [agent_name |-> agent_name, type |-> result_type,
                 doc_id |-> doc_id, timestamp |-> timestamp]
    IN  IF DictTruthy(metadata) THEN Update(meta, metadata.d) ELSE meta

\* LCDocument(page_content=..., metadata=...)
LCDocument(page_content, metadata) ==
    [page_content |-> page_content, metadata |-> metadata]

\* A record of the collection: a document under its id
Stored(id, doc) ==
    [id |-> id, page_content |-> doc.page_content, metadata |-> doc.metadata]

NewId_Reused(store) == 1
\* add_documents is given no ids: the store draws a new one (a uuid) for
\* every document
NewId(store) == Len(store) + 1

\* vs.add_documents([doc]): the collection's upsert under the new id
AddDocuments(store, doc) ==
    LET id == NewId(store) IN
    IF \E i \in 1..Len(store) : store[i].id = id
    THEN [i \in 1..Len(store) |->
             IF store[i].id = id THEN Stored(id, doc) ELSE store[i]]
    ELSE Append(store, Stored(id, doc))

\* _store_impl's return value
Confirmation(agent_name, result_type, doc_id) ==
    << "Stored analysis result: type='", result_type, "', agent='", agent_name,
       "', doc_id='", doc_id, "'" >>

\* s[:n]
FirstN(s, n) == IF Len(s) <= n THEN s ELSE SubSeq(s, 1, n)

\* the permutations of 1..n: the orders in which the backend may rank n
\* records by their similarity to a query
Orders(n) ==
    { o \in [1..n -> 1..n] : \A i, j \in 1..n : o[i] = o[j] => i = j }

\* the backend's `where` filter, and match() of _retrieve_impl: the
\* metadata holds the filter's value under every key of the filter
Match(meta, filt) == \A kf \in DOMAIN filt : Get(meta, kf) = filt[kf]

\* vs.similarity_search(query, k=k, filter=filter): the k records most
\* similar to the query among those the filter admits. order: the backend's
\* ranking of the collection for this query.
SimilaritySearch(store, order, k, filter) ==
    LET ranked == [i \in 1..Len(store) |-> store[order[i]]]
        admits(r) == filter.none \/ Match(r.metadata, filter.d)
    IN  FirstN(SelectSeq(ranked, admits), k)

ManualFilter_Skipped(results, filter) == results
\* _retrieve_impl: the manual filter of the except clause
ManualFilter(results, filter) ==
    IF DictTruthy(filter)
    THEN LET match(r) == Match(r.metadata, filter.d) IN SelectSeq(results, match)
    ELSE results

\* _retrieve_impl: payload
Payload(results) ==
    [i \in 1..Len(results) |->
        [rank |-> i, content |-> results[i].page_content,
         metadata |-> results[i].metadata]]

\* What a tool call did: it returned (raised = "none") or raised.
\* results: the "results" of _retrieve_impl's dict; text: _store_impl's str.
ToolReturn(query, results, text) ==
    [raised |-> "none", query |-> query, results |-> results, text |-> text]
ToolRaise(e) == [raised |-> e, query |-> "", results |-> <<>>, text |-> <<>>]

\* datetime.utcnow().isoformat() + "Z": the calls of the model fall within
\* one reading of the clock
Timestamps == {"2024-05-01T10:00:00Z"}

\* The arguments of _store_impl
StoreArgs(agent_name, result_type, res, doc_id, metadata) ==
    [agent_name |-> agent_name, result_type |-> result_type, res |-> res,
     doc_id |-> doc_id, metadata |-> metadata]

\* How the backend answers the calls of one _store_impl.
StoreAnswers == {"answers", "add_documents raises", "persist raises"}

\* _store_impl(agent_name, result_type, result, doc_id, metadata): the
\* collection it leaves, and what it returns or raises
StoreImpl(store, call, timestamp, backend) ==
    LET text_repr == TextRepr(call.res)
        meta == Meta(call.agent_name, call.result_type, call.doc_id,
                     timestamp, call.metadata)
        text == Confirmation(call.agent_name, call.result_type, call.doc_id)
    IN  [store |-> IF backend = "add_documents raises" THEN store
                   ELSE AddDocuments(store, LCDocument(text_repr, meta)),
         out |-> IF backend = "answers" THEN ToolReturn("", <<>>, text)
                 ELSE ToolRaise("BackendError")]

Result_NoQuery(query, payload) == ToolReturn("", payload, <<>>)
\* _retrieve_impl's return value: {"query": query, "results": payload}
Result(query, payload) == ToolReturn(query, payload, <<>>)

\* How the backend answers the calls of one _retrieve_impl. The first call
\* raises TypeError exactly when similarity_search has no keyword `filter`.
BackendAnswers == {"answers", "raises", "raises in fallback"}

\* _retrieve_impl(query, k, filter)
RetrieveImpl(store, kw, order, backend, query, k, filter) ==
    IF backend = "raises" THEN ToolRaise("BackendError")
    ELSE IF kw
    THEN Result(query, Payload(SimilaritySearch(store, order, k, filter)))
    ELSE IF backend = "raises in fallback" THEN ToolRaise("BackendError")
    ELSE Result(query,
                Payload(ManualFilter(SimilaritySearch(store, order, k, NoDict),
                                     filter)))

\* The record of a tool call: its arguments, how the backend answered (for
\* a retrieve, order is its ranking of the collection), and what the call
\* did. before: the number of records when it was called. after_store: the
\* call before it was a _store_impl that returned.
ToolCall(op, backend, order, query, k, filter, out, before, after_store) ==
    [op |-> op, backend |-> backend, order |-> order, query |-> query, k |-> k,
     filter |-> filter, out |-> out, before |-> before,
     after_store |-> after_store]

---------------------------------------------------------------------------
(* tools/document_processor_tool.py: DocumentProcessorTools. It writes to   *)
(* the Chroma collection of the same persist directory as the storage tool. *)

\* DocumentProcessorTools.batch_size (DocumentProcessorAgent passes none)
batch_size == 100

\* A path and what is found there. ext: the text after the last "."; docs:
\* for every document the loader returns, the number of chunks the splitter
\* cuts it into (an image gives one document, whatever its text).
File(dir, name, ext, exists, docs) ==
    [dir |-> dir, name |-> name, ext |-> ext, exists |-> exists, docs |-> docs]

FilePath(file) == file.dir \o file.name

\* os.path.basename(file_path)
Basename(file) == file.name

\* Where the libraries under process_document raise (at "none": nowhere).
\* batch: the call of add_documents that raises.
Failure(at, batch) == [at |-> at, batch |-> batch]

\* load_document's outcome: the documents, or the text of what it raised
Loaded(docs, raised) == [docs |-> docs, raised |-> raised]

\* The text of the d-th document a loader reads from the file ("": the file
\* holds no text there)
DocText(file, d) ==
    IF file.docs[d] = 0 THEN ""
    ELSE "text " \o ToString(d) \o " of " \o FilePath(file)

\* load_document(file_path): PyPDFLoader writes the metadata source and page
\* (from 0), Docx2txtLoader writes source, and the image branch builds its
\* document without metadata.
load_document(file, fail) ==
    LET ext == Lower(file.ext)
        path == FilePath(file)
        n == Len(file.docs)
    IN  IF ext \notin {Lit("pdf"), Lit("docx"), Lit("png"), Lit("jpg"), Lit("jpeg")}
        THEN Loaded(<<>>, <<"Unsupported file type: ", ext.core>>)
        ELSE IF fail.at = "load_document"
        THEN Loaded(<<>>, <<"loader failed">>)
        ELSE IF ext = Lit("pdf")
        THEN Loaded([d \in 1..n |->
                        LCDocument(DocText(file, d),
                                   [source |-> path, page |-> d - 1])], <<>>)
        ELSE IF ext = Lit("docx")
        THEN Loaded([d \in 1..n |->
                        LCDocument(DocText(file, d), [source |-> path])], <<>>)
        ELSE Loaded([d \in 1..n |-> LCDocument(DocText(file, d), <<>>)], <<>>)

\* splitter.split_documents([doc]) for the d-th document of the file: its
\* chunks, in order, each with the document's metadata
SplitDocument(file, d, doc) ==
    [c \in 1..file.docs[d] |->
        LCDocument("chunk " \o ToString(d) \o "." \o ToString(c) \o " of "
                       \o FilePath(file),
                   doc.metadata)]

RECURSIVE Flatten(_)
Flatten(lists) ==
    IF lists = <<>> THEN <<>> ELSE Head(lists) \o Flatten(Tail(lists))

\* chunk_documents(documents)
chunk_documents(file, documents) ==
    Flatten([d \in 1..Len(documents) |-> SplitDocument(file, d, documents[d])])

\* chunks[i:i + n] of the loop of store_in_vectordb, for i = 0, n, 2n, ...
RECURSIVE Batches(_, _)
Batches(chunks, n) ==
    IF chunks = <<>> THEN <<>>
    ELSE IF Len(chunks) <= n THEN <<chunks>>
    ELSE <<SubSeq(chunks, 1, n)>> \o Batches(SubSeq(chunks, n + 1, Len(chunks)), n)

\* vectordb.add_documents(batch): a new id for every document of the batch,
\* then one upsert of them all
AddBatch(store, batch) ==
    LET first == NewId(store)
        new == [d \in 1..Len(batch) |-> Stored(first + d - 1, batch[d])]
        Taken(id) == \E i \in 1..Len(store) : store[i].id = id
    IN  [i \in 1..Len(store) |->
            IF \E d \in 1..Len(new) : new[d].id = store[i].id
            THEN new[CHOOSE d \in 1..Len(new) : new[d].id = store[i].id]
            ELSE store[i]]
        \o SelectSeq(new, LAMBDA r : ~Taken(r.id))

\* The loop of store_in_vectordb from its batch number b on. added: the
\* sizes of the batches add_documents has taken.
RECURSIVE AddBatches(_, _, _, _, _)
AddBatches(store, batches, b, fail, added) ==
    IF b > Len(batches)
    THEN [store |-> store, added |-> added,
          raised |-> IF fail.at = "persist"
                     THEN <<"persist failed">> ELSE <<>>]
    ELSE IF fail.at = "add_documents" /\ fail.batch = b
    THEN [store |-> store, added |-> added, raised |-> <<"add_documents failed">>]
    ELSE AddBatches(AddBatch(store, batches[b]), batches, b + 1, fail,
                    Append(added, Len(batches[b])))

\* store_in_vectordb(chunks)
store_in_vectordb(store, chunks, fail) ==
    IF fail.at = "get_vectordb"
    THEN [store |-> store, added |-> <<>>, raised |-> <<"get_vectordb failed">>]
    ELSE AddBatches(store, Batches(chunks, batch_size), 1, fail, <<>>)

\* The dict process_document or store_metadata returns (a key it lacks: the
\* empty value). extracted_text: the page contents that " " joins.
DocResult(status, err, file_name, num_chunks, db_path, text, stored_type, source_file) ==
    [status |-> status, error |-> err, file_name |-> file_name,
     num_chunks |-> num_chunks, vector_db_path |-> db_path,
     extracted_text |-> text, stored_type |-> stored_type,
     source_file |-> source_file]

DocError(err) == DocResult("", err, "", 0, "", <<>>, "", "")

\* One call of process_document or store_metadata (op). raised: what the call
\* itself raised; before: the collection's size at the call; chunks: the
\* documents handed to store_in_vectordb; added: the sizes of the batches
\* added.
DocCall(op, file_path, raised, out, before, chunks, added) ==
    [op |-> op, file_path |-> file_path, raised |-> raised, out |-> out,
     before |-> before, chunks |-> chunks, added |-> added]

\* The call and the collection it leaves
Processed(call, store) == [call |-> call, store |-> store]

\* process_document(file_path)
process_document(store, file, fail) ==
    LET path == FilePath(file)
        loaded == load_document(file, fail)
        chunks == chunk_documents(file, loaded.docs)
        stored == store_in_vectordb(store, chunks, fail)
        before == Len(store)
        Call(out, cs, added) ==
            DocCall("process_document", path, "none", out, before, cs, added)
    IN  IF ~file.exists
        THEN Processed(Call(DocError(<<"File not found: ", path>>), <<>>, <<>>),
                       store)
        ELSE IF loaded.raised # <<>>
        THEN Processed(Call(DocError(loaded.raised), <<>>, <<>>), store)
        ELSE IF loaded.docs = <<>>
        THEN Processed(Call(DocError(<<"No text extracted from document.">>),
                            <<>>, <<>>), store)
        ELSE IF stored.raised # <<>>
        THEN Processed(Call(DocError(stored.raised), chunks, stored.added),
                       stored.store)
        ELSE Processed(Call(DocResult("success", <<>>, Basename(file),
                                      Len(chunks), "vector_store",
                                      [d \in 1..Len(loaded.docs) |->
                                          loaded.docs[d].page_content],
                                      "", ""),
                            chunks, stored.added), stored.store)

\* store_metadata(content, meta_type, source_file): it has no except clause,
\* what store_in_vectordb raises leaves the call. The document holds the
\* content as given (the Str itself); strip() serves the test alone.
store_metadata(store, content, meta_type, source_file, fail) ==
    LET doc == LCDocument(content,
                          [type |-> meta_type, source |-> source_file])
        stored == store_in_vectordb(store, <<doc>>, fail)
        before == Len(store)
        Call(raised, out, cs, added) ==
            DocCall("store_metadata", source_file, raised, out, before, cs, added)
    IN  IF ~Truthy(Strip(content))
        THEN Processed(Call("none",
                            DocError(<<"Empty content, nothing to store.">>),
                            <<>>, <<>>), store)
        ELSE IF stored.raised # <<>>
        THEN Processed(Call("BackendError", DocError(<<>>), <<doc>>, stored.added),
                       stored.store)
        ELSE Processed(Call("none",
                            DocResult("success", <<>>, "", 0, "vector_store",
                                      <<>>, meta_type, source_file),
                            <<doc>>, stored.added), stored.store)

\* before any call of process_document
NoDocCall == DocCall("none", "", "none", DocError(<<>>), 0, <<>>, <<>>)

\* the tool before any call
NoCall ==
    ToolCall("none", "answers", <<>>, "", 0, NoDict, ToolReturn("", <<>>, <<>>),
             0, FALSE)

StoreIdle ==
    /\ vs = <<>>
    /\ filter_kw = TRUE
    /\ tool_out = NoCall
    /\ doc_out = NoDocCall

---------------------------------------------------------------------------
(* main.py: the state after the module is loaded.                          *)

Files == {"paper.pdf", "notes.docx"}
Urls == {"https://youtu.be/lecture1"}

\* f"uploads/{file.filename}"
FileLocation(filename) ==
    CASE filename = "paper.pdf" -> "uploads/paper.pdf"
      [] filename = "notes.docx" -> "uploads/notes.docx"

Response(code, status, message) ==
    [code |-> code, status |-> status, message |-> message]
NoResponse == Response(0, "", <<>>)

\* What run_graph hands to its caller: it has no return statement, so the
\* value is None, whatever the run gathered.
NotReturned == [returned |-> FALSE, none |-> TRUE, history |-> <<>>]
ReturnsNone == [returned |-> TRUE, none |-> TRUE, history |-> <<>>]

\* the locals of run_graph and the graph's state, outside a run
RunIdle ==
    /\ pc = "idle"
    /\ messages = <<>>
    /\ step = 0
    /\ next = END
    /\ nodes = <<>>
    /\ decision = NoDecision
    /\ error = "none"
    /\ fragments = <<>>
    /\ result = NotReturned

ServerInit ==
    /\ session_state = [file_path |-> None, youtube_url |-> None, chat_history |-> <<>>]
    /\ qa_history = <<>>
    /\ llm_in = <<>>
    /\ response = NoResponse
    /\ requests = 0

Init ==
    /\ ServerInit
    /\ RunIdle
    /\ StoreIdle
    /\ llm_prev = NoOutput
    /\ llm_free = MaxFree

---------------------------------------------------------------------------
(* run_graph and the supersteps of compiled_graph.stream                   *)

\* run_graph's input_state
InputState(file_path) ==
    << HumanMessage(Text(<<"New file uploaded: ", file_path>>)) >>

\* A chunk of stream(): in the default "updates" mode, a dict whose one key
\* is the node's name and whose value holds the node's new messages.
Chunk(node, msgs) == [keys |-> {node}, msgs |-> msgs]

\* bool(m.content): a content is falsy when it is the empty text
ContentTruthy(c) == c.parts # <<>> \/ c.json.t # "invalid"

\* the body of run_graph's loop over the chunks (pretty_print_messages only
\* prints the chunk)
Collect(frags, chunk) ==
    IF "messages" \in chunk.keys /\ chunk.msgs # <<>>
    THEN frags \o SelectSeq([i \in 1..Len(chunk.msgs) |-> chunk.msgs[i].content],
                            ContentTruthy)
    ELSE frags

\* run_graph: the call of compiled_graph.stream, up to the first superstep
StartRun(file_path) ==
    /\ pc' = "stream"
    /\ messages' = InputState(file_path)
    /\ step' = FirstStep
    /\ next' = SUPERVISOR
    /\ nodes' = <<>>
    /\ decision' = NoDecision
    /\ error' = "none"
    /\ fragments' = <<>>
    /\ result' = NotReturned
    /\ llm_prev' = NoOutput
    /\ UNCHANGED llm_free

\* stream() raises e: the except clause of run_graph, then its return
Abort(e) ==
    /\ pc' = "finished"
    /\ error' = e
    /\ result' = ReturnsNone
    /\ UNCHANGED <<messages, step, next, fragments>>

\* A superstep that runs the supervisor: the model writes o, and the
\* conditional edge calls decide_next on the state with that message. When
\* decide_next or the path map raises, the node's writes are dropped.
SupervisorStep(o) ==
    /\ pc = "stream" /\ step <= Stop /\ next = SUPERVISOR
    /\ o \in LlmChoices
    /\ llm_prev' = o
    /\ llm_free' = IF llm_free > 0 THEN llm_free - 1 ELSE 0
    /\ nodes' = Append(nodes, SUPERVISOR)
    /\ LET update == << AIMessage(SUPERVISOR, o) >>
           d == DecideNext(messages \o update)
       IN  /\ decision' = d
           /\ IF d.raised # "none"
              THEN Abort(d.raised)
              ELSE IF Destination(d.ret) = "KeyError"
              THEN Abort("KeyError")
              ELSE /\ messages' = messages \o update
                   /\ next' = Destination(d.ret)
                   /\ step' = step + 1
                   /\ fragments' = Collect(fragments, Chunk(SUPERVISOR, update))
                   /\ UNCHANGED <<pc, error, result>>
    /\ UNCHANGED <<serverVars, storeVars>>

\* What the handler of /upload has written under uploads/: a PDF of two
\* pages (two chunks and one chunk), a DOCX of one chunk.
\* It is the file of the run's seed message.
UploadedFile ==
    IF session_state.file_path = FileLocation("paper.pdf")
    THEN File("uploads/", "paper.pdf", Lit("pdf"), TRUE, <<2, 1>>)
    ELSE File("uploads/", "notes.docx", Lit("docx"), TRUE, <<1>>)

\* Where the store under a tool's call raises in a run: nowhere, in the
\* first call of add_documents (nothing is added), or in persist (after the
\* documents were added).
RunFailures ==
    {Failure("none", 0), Failure("add_documents", 1), Failure("persist", 0)}

\* the tools built with return_direct=True: the agent's loop ends with
\* their tool message (the tool node's error message too, which carries
\* the tool's name), without another call of its model
ReturnDirect == {"get_youtube_transcript"}

\* What a worker's model does in its superstep, as the rounds of the agent's
\* loop, in order (none: it answers at once). A round is one message of
\* the model with its tool calls (calls) and the order in which the calls,
\* which the tool node runs in parallel, reach the collection (runs).
\* A call names the tool and where the store under it raises (fail).
\* The agents put no bound on the rounds; those followed hold one call of
\* a tool of the agent, under each failure of the store, or two calls, in
\* two rounds or in one.
WorkerUses(node) ==
    LET writing == {"process_document", "store_metadata", "store_analysis_result"}
        plain == { [tool |-> tool, fail |-> Failure("none", 0)] :
                      tool \in Tools[node] }
        failing == { [tool |-> tool, fail |-> fail] :
                        tool \in Tools[node] \cap writing, fail \in RunFailures }
        One(call) == [calls |-> <<call>>, runs |-> <<1>>]
    IN  {<<>>}
            \cup { <<One(call)>> : call \in plain \cup failing }
            \cup { <<One(c), One(d)>> : c \in plain, d \in plain }
            \cup { <<[calls |-> <<c, d>>, runs |-> runs]>> :
                      c \in plain, d \in plain, runs \in {<<1, 2>>, <<2, 1>>} }

\* A worker model's tool calls are one of the outputs drawn freely (see
\* MaxFree); past them the worker's model answers at once.
WorkerChoices(node) == IF llm_free > 0 THEN WorkerUses(node) ELSE {<<>>}

\* the arguments the agents' prompts prescribe for store_analysis_result
PromptStoreArgs(node) ==
    StoreArgs(AgentName[node],
              CASE node = "summarizer_agent" -> "summary"
                [] node = "pyq_syllabus_analysis_agent" -> "trend_analysis"
                [] OTHER -> "video_summary",
              PyResult("dict", "{'topic': 'tcp'}", "{\"topic\": \"tcp\"}"),
              None, NoDict)

\* " ".join(texts)
RECURSIVE Join(_)
Join(texts) ==
    IF texts = <<>> THEN <<>>
    ELSE IF Len(texts) = 1 THEN texts
    ELSE <<Head(texts), " ">> \o Join(Tail(texts))

\* extract_text(file_path): the text it returns, or what it raises (it has
\* no except clause)
extract_text(file, fail) ==
    LET loaded == load_document(file, fail)
    IN  IF ~file.exists
        THEN [text |-> <<>>, raised |-> "FileNotFoundError"]
        ELSE IF loaded.raised # <<>>
        THEN [text |-> <<>>,
              raised |-> IF fail.at = "load_document" /\ loaded.raised = <<"loader failed">>
                         THEN "LoaderError" ELSE "ValueError"]
        ELSE IF loaded.docs = <<>>
        THEN [text |-> <<>>, raised |-> "ValueError"]
        ELSE [text |-> Join([d \in 1..Len(loaded.docs) |->
                                loaded.docs[d].page_content]),
              raised |-> "none"]

\* The content of the tool message for the dict that a call of
\* process_document or store_metadata returned: the tool node writes
\* json.dumps(dict), a JSON object without the key next_agent.
DictText(call) ==
    LET out == call.out IN
    Content(
    IF out.error # <<>> THEN <<"{\"error\": \"">> \o out.error \o <<"\"}">>
    ELSE IF call.op = "store_metadata"
    THEN << "{\"status\": \"", out.status, "\", \"stored_type\": \"",
            out.stored_type, "\", \"source_file\": \"", out.source_file,
            "\", \"vector_db_path\": \"", out.vector_db_path, "\"}" >>
    ELSE << "{\"status\": \"", out.status, "\", \"file_name\": \"",
            out.file_name, "\", \"num_chunks\": ", ToString(out.num_chunks),
            ", \"vector_db_path\": \"", out.vector_db_path,
            "\", \"extracted_text\": \"" >>
           \o Join(out.extracted_text) \o <<"\"}">>,
    ObjNoNext)

\* What one call of a tool does in a worker's superstep. st: the collection
\* and the records of the tools' calls (store, tool_out, doc_out) before
\* it. It gives them after the call, the content of the tool message for
\* what the tool returns, and what the tool raises to the agent's tool node
\* ("none": it returns). The model passes the path of the run's seed to the
\* tools that take a path or a URL. get_youtube_transcript is the tool
\* made of the class's plain function, which get_tools hands out unbound:
\* the tool node calls it with the arguments of the tool call, without
\* self, and every call raises TypeError before the function's body runs.
ToolRound(node, use, st) ==
    LET Doc(done) ==
            [st |-> [st EXCEPT !.store = done.store, !.doc_out = done.call],
             content |-> DictText(done.call), raised |-> done.call.raised]
        Wrote(backend, done) ==
            [st |-> [st EXCEPT
                        !.store = done.store,
                        !.tool_out = ToolCall("store", backend, <<>>, "", 0,
                                              NoDict, done.out, Len(st.store),
                                              FALSE)],
             content |-> Text(done.out.text), raised |-> done.out.raised]
        Analysis(backend) ==
            Wrote(backend, StoreImpl(st.store, PromptStoreArgs(node),
                                      CHOOSE t \in Timestamps : TRUE, backend))
        Extracted(done) ==
            [st |-> st, content |-> Text(done.text), raised |-> done.raised]
    IN  CASE use.tool = "process_document" ->
                Doc(process_document(st.store, UploadedFile, use.fail))
          [] use.tool = "store_metadata" ->
                Doc(store_metadata(st.store, Lit("Summary of the document."),
                                   "summary", Basename(UploadedFile), use.fail))
          [] use.tool = "store_analysis_result" ->
                Analysis(CASE use.fail.at = "add_documents" -> "add_documents raises"
                        [] use.fail.at = "persist" -> "persist raises"
                        [] OTHER -> "answers")
          [] use.tool = "extract_text" ->
                Extracted(extract_text(UploadedFile, use.fail))
          [] use.tool = "get_youtube_transcript" ->
                [st |-> st, content |-> Text(<<>>), raised |-> "TypeError"]

\* The calls of one round. ran[k]: the collection and the records of the
\* tools' calls after the k-th call that runs, what left the tool node as
\* an exception (failed: whether the call raised), and the content of the
\* call's tool message. handled: what
\* the installed runtime's tool node does with a tool's exception: it
\* answers the model with an error message, or raises it on, out of the
\* agent and of stream(). What the calls before the exception wrote stays.
\* outs: the contents of the tool messages, by call.
RunCalls(node, round, st, handled) ==
    LET n == Len(round.runs)
        After(before, done) ==
            IF before.raised # "none" THEN before
            ELSE [st |-> done.st,
                  failed |-> done.raised # "none",
                  raised |-> IF handled THEN "none" ELSE done.raised,
                  content |-> IF done.raised = "none" THEN done.content
                              ELSE Text(<<"Error: ", done.raised,
                                          "\n Please fix your mistakes.">>)]
        ran[k \in 0..n] ==
            IF k = 0
            THEN [st |-> st, failed |-> FALSE, raised |-> "none",
                  content |-> Text(<<>>)]
            ELSE After(ran[k - 1],
                       ToolRound(node, round.calls[round.runs[k]], ran[k - 1].st))
    IN  [st |-> ran[n].st, raised |-> ran[n].raised,
         failed |-> \E k \in 1..n : ran[k].failed,
         outs |-> [i \in 1..n |->
                      ran[CHOOSE k \in 1..n : round.runs[k] = i].content]]

\* What a worker agent's loop leaves: the collection and the records of the
\* tools' calls (st), the messages the agent returns (msgs: for each round
\* the model's message with the calls and one tool message per call, in the
\* order of the calls, then the model's answer; after a round of
\* return_direct tools no answer), what left the agent as an exception
\* (raised), and whether the loop ended without a last call of the model
\* (direct), and whether a tool raised (failed). loop[r]: the same after r
\* rounds. The AI messages carry the
\* agent's name, a tool message the tool's.
WorkerOutput(node, uses, st, handled) ==
    LET name == AgentName[node]
        After(before, calls, ran) ==
            IF before.raised # "none" \/ before.direct THEN before
            ELSE [st |-> ran.st,
                  msgs |-> IF ran.raised # "none" THEN <<>>
                           ELSE before.msgs
                                  \o << AIMessage(name, Text(<<"tool call of ", name>>)) >>
                                  \o [i \in 1..Len(calls) |->
                                         ToolMessage(calls[i].tool, ran.outs[i])],
                  raised |-> ran.raised,
                  failed |-> before.failed \/ ran.failed,
                  direct |-> /\ ran.raised = "none"
                             /\ \A i \in 1..Len(calls) :
                                   calls[i].tool \in ReturnDirect]
        loop[r \in 0..Len(uses)] ==
            IF r = 0
            THEN [st |-> st, msgs |-> <<>>, raised |-> "none",
                  failed |-> FALSE, direct |-> FALSE]
            ELSE After(loop[r - 1], uses[r].calls,
                       RunCalls(node, uses[r], loop[r - 1].st, handled))
        Answered(last) ==
            IF last.raised # "none" \/ last.direct THEN last
            ELSE [last EXCEPT
                     !.msgs = @ \o << AIMessage(name, Text(<<"answer of ", name>>)) >>]
    IN  Answered(loop[Len(uses)])

\* A superstep that runs a worker agent, which returns its messages after
\* the calls of its tools; the edge of build_graph leads back to the
\* supervisor.
WorkerStep(uses) ==
    LET Returns(out) ==
            /\ ~out.failed
            /\ messages' = messages \o out.msgs
            /\ fragments' = Collect(fragments, Chunk(next, out.msgs))
            /\ vs' = out.st.store
            /\ tool_out' = out.st.tool_out
            /\ doc_out' = out.st.doc_out
    IN  /\ pc = "stream" /\ step <= Stop /\ next \in Workers
        /\ uses \in WorkerChoices(next)
        /\ nodes' = Append(nodes, next)
        /\ Returns(WorkerOutput(next, uses,
                                [store |-> vs, tool_out |-> tool_out,
                                 doc_out |-> doc_out], FALSE))
        /\ next' = EdgeFrom(next)
        /\ step' = step + 1
        /\ llm_free' = IF uses = <<>> THEN llm_free ELSE llm_free - 1
        /\ UNCHANGED <<pc, decision, error, result, filter_kw, llm_prev>>
        /\ UNCHANGED serverVars

\* A superstep whose agent raises in a call of its model: at once, or after
\* rounds of tool calls, whose writes to the collection stay.
AgentFails(uses) ==
    LET Raises(out) ==
            /\ ~out.failed /\ ~out.direct
            /\ vs' = out.st.store
            /\ tool_out' = out.st.tool_out
            /\ doc_out' = out.st.doc_out
    IN  /\ pc = "stream" /\ step <= Stop /\ next \in AgentNames
        /\ uses \in (IF next \in Workers THEN WorkerChoices(next) ELSE {<<>>})
        /\ nodes' = Append(nodes, next)
        /\ Raises(WorkerOutput(next, uses,
                               [store |-> vs, tool_out |-> tool_out,
                                doc_out |-> doc_out], FALSE))
        /\ Abort("AgentError")
        /\ llm_free' = IF uses = <<>> THEN llm_free ELSE llm_free - 1
        /\ UNCHANGED <<decision, filter_kw, llm_prev>>
        /\ UNCHANGED serverVars

\* A superstep whose agent calls a tool that raises (store_analysis_result,
\* store_metadata and extract_text have no handler for what is raised under
\* them; get_youtube_transcript raises when it is called): the exception
\* reaches the agent's tool node; what add_documents
\* added before persist raised stays. With a tool node that answers the
\* model (handled) the agent returns its messages; with one that raises, the
\* run ends, and the agent's loop leaves the exception.
ToolFails(uses, handled) ==
    LET Fails(out) ==
            /\ out.failed
            /\ vs' = out.st.store
            /\ tool_out' = out.st.tool_out
            /\ doc_out' = out.st.doc_out
            /\ IF handled
               THEN /\ messages' = messages \o out.msgs
                    /\ next' = EdgeFrom(next)
                    /\ step' = step + 1
                    /\ fragments' = Collect(fragments, Chunk(next, out.msgs))
                    /\ UNCHANGED <<pc, error, result>>
               ELSE Abort("AgentError")
    IN  /\ pc = "stream" /\ step <= Stop /\ next \in Workers
        /\ uses \in WorkerChoices(next)
        /\ nodes' = Append(nodes, next)
        /\ Fails(WorkerOutput(next, uses,
                              [store |-> vs, tool_out |-> tool_out,
                               doc_out |-> doc_out], handled))
        /\ llm_free' = IF uses = <<>> THEN llm_free ELSE llm_free - 1
        /\ UNCHANGED <<decision, filter_kw, llm_prev>>
        /\ UNCHANGED serverVars

OutOfSteps_Unchecked ==
    /\ pc = "stream" /\ step > Stop
    /\ UNCHANGED vars

\* The runtime's check before a superstep: past the limit it raises
\* GraphRecursionError, also when no node is left to run.
OutOfSteps ==
    /\ pc = "stream" /\ step > Stop
    /\ Abort("GraphRecursionError")
    /\ UNCHANGED <<nodes, decision>>
    /\ UNCHANGED <<serverVars, envVars, storeVars>>

\* No node is left to run: stream() is exhausted and run_graph returns.
GraphEnd ==
    /\ pc = "stream" /\ step <= Stop /\ next = END
    /\ pc' = "finished"
    /\ result' = ReturnsNone
    /\ UNCHANGED <<messages, step, next, nodes, decision, error, fragments>>
    /\ UNCHANGED <<serverVars, envVars, storeVars>>

\* The locals of run_graph are dropped when the handler returns, and with
\* them the records of the run's tool calls; the collection stays.
RunReset ==
    /\ pc' = "idle"
    /\ messages' = <<>>
    /\ step' = 0
    /\ next' = END
    /\ nodes' = <<>>
    /\ decision' = NoDecision
    /\ error' = "none"
    /\ fragments' = <<>>
    /\ result' = NotReturned
    /\ llm_prev' = NoOutput
    /\ tool_out' = NoCall
    /\ doc_out' = NoDocCall
    /\ UNCHANGED <<llm_free, vs, filter_kw>>

---------------------------------------------------------------------------
(* POST /upload                                                            *)

\* upload_file_or_url with a file: up to the call of run_graph
UploadFile(filename) ==
    /\ pc = "idle" /\ requests < MaxRequests
    /\ requests' = requests + 1
    /\ session_state' = [session_state EXCEPT !.file_path = FileLocation(filename)]
    /\ StartRun(FileLocation(filename))
    /\ UNCHANGED <<qa_history, llm_in, response, storeVars>>

\* upload_file_or_url with a file: open(file_location, "wb") or the copy
\* raises (the source tree has no directory uploads and no code creates it).
\* The exception leaves the handler before session_state is written and
\* before run_graph, and the framework answers 500.
UploadFileFails(filename) ==
    /\ pc = "idle" /\ requests < MaxRequests
    /\ requests' = requests + 1
    /\ response' = Response(500, "error", <<"Internal Server Error">>)
    /\ UNCHANGED <<session_state, qa_history, llm_in>>
    /\ UNCHANGED <<runVars, envVars, storeVars>>

\* upload_file_or_url with a file: from the return of run_graph
UploadFileReturn ==
    /\ pc = "finished"
    /\ LET filename == CHOOSE f \in Files : FileLocation(f) = session_state.file_path
       IN  response' = Response(200, "success",
                                <<"File '", filename, "' uploaded and processed.">>)
    /\ RunReset
    /\ UNCHANGED <<session_state, qa_history, llm_in, requests>>

\* upload_file_or_url with no file and a YouTube URL. The class
\* YouTubeSummarizerAgent has no method summarize: the call raises
\* AttributeError inside the try, and the handler answers from its except
\* clause. No graph is run.
UploadUrl(youtube_url) ==
    /\ pc = "idle" /\ requests < MaxRequests
    /\ requests' = requests + 1
    /\ session_state' = [session_state EXCEPT !.youtube_url = youtube_url]
    /\ response' = Response(200, "success",
                            <<"YouTube URL '", youtube_url,
                              "' received, but processing failed: ", "AttributeError">>)
    /\ UNCHANGED <<qa_history, llm_in>>
    /\ UNCHANGED <<runVars, envVars, storeVars>>

\* upload_file_or_url with neither (the URL None or empty)
UploadNothing ==
    /\ pc = "idle" /\ requests < MaxRequests
    /\ requests' = requests + 1
    /\ response' = Response(400, "error", <<"No file or YouTube URL provided.">>)
    /\ UNCHANGED <<session_state, qa_history, llm_in>>
    /\ UNCHANGED <<runVars, envVars, storeVars>>


Run ==
    \/ \E o \in SupOutputs : SupervisorStep(o)
    \/ \E uses \in UNION { WorkerUses(node) : node \in Workers } : WorkerStep(uses)
    \/ \E uses \in UNION { WorkerUses(node) : node \in Workers } : AgentFails(uses)
    \/ \E uses \in UNION { WorkerUses(node) : node \in Workers }, handled \in BOOLEAN :
          ToolFails(uses, handled)
    \/ OutOfSteps
    \/ GraphEnd
    \/ UploadFileReturn

Next ==
    \/ \E filename \in Files : UploadFile(filename)
    \/ \E filename \in Files : UploadFileFails(filename)
    \/ Run

Spec == Init /\ [][Next]_vars

---------------------------------------------------------------------------
(* QAAgent                                                                 *)

\* QAAgent.__init__: max_history
max_history == 6

SystemMessage(content) == Msg("system", None, content)

\* What the retriever may return: nothing; a chunk of a PDF (its loader
\* writes source and page; the first page is page 0); a record of
\* store_analysis_result, which has no source; a document with a file_name.
Retrievals ==
    { <<>>,
      << LCDocument("TCP is a transport protocol.",
                    [source |-> "uploads/paper.pdf", page |-> 2]) >>,
      << LCDocument("TCP is reliable.",
                    [agent_name |-> "summarizer_agent", type |-> "summary",
                     doc_id |-> "paper.pdf",
                     timestamp |-> "2024-05-01T10:00:00Z"]) >>,
      << LCDocument("OSI has seven layers.", [file_name |-> "notes.docx"]),
         LCDocument("", [source |-> "uploads/paper.pdf", page |-> 0]) >> }

\* get_relevant_documents: the documents, or an exception
Retrieved(docs) == [raises |-> FALSE, docs |-> docs]
RetrievalRaises == [raises |-> TRUE, docs |-> <<>>]
RetrievalOutcomes == { Retrieved(docs) : docs \in Retrievals } \cup {RetrievalRaises}

\* what the model may answer
Answers ==
    { "TCP is a transport protocol [C1].", "The context does not say." }

\* s[-n:]
LastN(s, n) == IF Len(s) <= n THEN s ELSE SubSeq(s, Len(s) - n + 1, Len(s))

\* d.metadata.get('source') or d.metadata.get('file_name') or 'unknown'
\* (a value that is None or '' is falsy)
SourceOf(metadata) ==
    IF Get(metadata, "source") \notin {None, ""} THEN Get(metadata, "source")
    ELSE IF Get(metadata, "file_name") \notin {None, ""} THEN Get(metadata, "file_name")
    ELSE "unknown"

\* f" | Page: {page}" if d.metadata.get('page') else "": a page number is
\* an int, falsy when 0
PageOf(metadata) ==
    IF "page" \in DOMAIN metadata /\ metadata["page"] # 0
    THEN <<" | Page: ", ToString(metadata["page"])>>
    ELSE <<>>

\* the joined entries of _format_context from the i-th document on
RECURSIVE FormatDocs(_, _)
FormatDocs(docs, i) ==
    IF i > Len(docs) THEN <<>>
    ELSE (IF i > 1 THEN <<"\n\n">> ELSE <<>>)
           \o <<"[C", ToString(i), "] Source: ", SourceOf(docs[i].metadata)>>
           \o PageOf(docs[i].metadata)
           \o <<"\n", docs[i].page_content>>
           \o FormatDocs(docs, i + 1)

\* _format_context
FormatContext(docs) ==
    IF docs = <<>> THEN <<"(no relevant context found)">> ELSE FormatDocs(docs, 1)

\* _messages
Messages(history, question, context) ==
    << SystemMessage(Text(<<"You are ExamPrepAI">>)) >>
        \o LastN(history, max_history)
        \o << HumanMessage(Text(<<"CONTEXT (for answering):\n">> \o context
                                  \o <<"\n\nQUESTION: ", question>>)) >>

\* the message list of answer's except clause
FallbackMessages(history, question) ==
    << SystemMessage(Text(<<"You are ExamPrepAI">>)) >>
        \o LastN(history, max_history)
        \o << HumanMessage(Text(<<"Retrieval failed; answering without grounding.\n",
                                  "QUESTION: ", question>>)) >>

FallbackHistory_NotRecorded(history, question, answer) == history
\* the history after answer's except clause
FallbackHistory(history, question, answer) ==
    history \o << HumanMessage(Text(<<question>>)), AIMessage(None, Text(<<answer>>)) >>

\* the history after answer's main path
AnswerHistory(history, question, answer) ==
    LET h == history \o << HumanMessage(Text(<<question>>)),
                           AIMessage(None, Text(<<answer>>)) >>
    IN  IF Len(h) > max_history * 2 THEN LastN(h, max_history * 2) ELSE h

---------------------------------------------------------------------------
(* POST /chat                                                              *)

\* request.message
ChatMessages ==
    { Lit("what is tcp"), Str(1, "what is tcp", FALSE, 1), Lit("explain osi"),
      Lit(""), Str(1, "", FALSE, 1) }

\* chat_with_bot: an empty message
ChatEmpty(message) ==
    /\ pc = "idle" /\ requests < MaxRequests
    /\ ~Truthy(Strip(message))
    /\ requests' = requests + 1
    /\ response' = Response(400, "error", <<"Empty message.">>)
    /\ UNCHANGED <<session_state, qa_history, llm_in>>
    /\ UNCHANGED <<runVars, envVars, storeVars>>

\* chat_with_bot: the question is answered. retrieved: what the retriever did.
ChatAnswered(message, retrieved, answer) ==
    /\ pc = "idle" /\ requests < MaxRequests
    /\ Truthy(Strip(message))
    /\ requests' = requests + 1
    /\ LET question == Strip(message).core IN
       /\ llm_in' = IF retrieved.raises
                    THEN FallbackMessages(qa_history, question)
                    ELSE Messages(qa_history, question, FormatContext(retrieved.docs))
       /\ qa_history' = IF retrieved.raises
                        THEN FallbackHistory(qa_history, question, answer)
                        ELSE AnswerHistory(qa_history, question, answer)
       /\ session_state' =
            [session_state EXCEPT !.chat_history =
                @ \o << <<"user", question>>, <<"agent", answer>> >>]
    /\ response' = Response(200, "success", <<answer>>)
    /\ UNCHANGED <<runVars, envVars, storeVars>>

\* chat_with_bot: llm.invoke raises, and so do answer and the handler
ChatFails(message, retrieved) ==
    /\ pc = "idle" /\ requests < MaxRequests
    /\ Truthy(Strip(message))
    /\ requests' = requests + 1
    /\ LET question == Strip(message).core IN
       /\ llm_in' = IF retrieved.raises
                    THEN FallbackMessages(qa_history, question)
                    ELSE Messages(qa_history, question, FormatContext(retrieved.docs))
       /\ session_state' =
            [session_state EXCEPT !.chat_history = Append(@, <<"user", question>>)]
    /\ response' = Response(500, "error", <<"Internal Server Error">>)
    /\ UNCHANGED qa_history
    /\ UNCHANGED <<runVars, envVars, storeVars>>

InitServer ==
    /\ ServerInit
    /\ RunIdle
    /\ StoreIdle
    /\ llm_prev = NoOutput
    /\ llm_free = ServerFree

NextServer ==
    \/ \E filename \in Files : UploadFile(filename)
    \/ \E filename \in Files : UploadFileFails(filename)
    \/ \E youtube_url \in Urls : UploadUrl(youtube_url)
    \/ UploadNothing
    \/ \E message \in ChatMessages : ChatEmpty(message)
    \/ \E message \in ChatMessages, retrieved \in RetrievalOutcomes,
          answer \in Answers : ChatAnswered(message, retrieved, answer)
    \/ \E message \in ChatMessages, retrieved \in RetrievalOutcomes :
          ChatFails(message, retrieved)
    \/ Run

SpecServer == InitServer /\ [][NextServer]_vars

\* The requests of POST /chat alone.
NextChat ==
    \/ \E message \in ChatMessages : ChatEmpty(message)
    \/ \E message \in ChatMessages, retrieved \in RetrievalOutcomes,
          answer \in Answers : ChatAnswered(message, retrieved, answer)
    \/ \E message \in ChatMessages, retrieved \in RetrievalOutcomes :
          ChatFails(message, retrieved)

SpecChat == InitServer /\ [][NextChat]_vars

---------------------------------------------------------------------------
(* Calls of QAAgent.answer on the process's one agent.                     *)

\* Calls of answer in a behaviour (counted in `requests`).
MaxAnswers == 7

\* the argument of answer
Questions == {"what is tcp", "explain osi"}

\* QAAgent.answer(question): the retriever did `retrieved` and the model
\* returns `answer`
Answer(question, retrieved, answer) ==
    /\ requests < MaxAnswers
    /\ requests' = requests + 1
    /\ llm_in' = IF retrieved.raises
                 THEN FallbackMessages(qa_history, question)
                 ELSE Messages(qa_history, question, FormatContext(retrieved.docs))
    /\ qa_history' = IF retrieved.raises
                     THEN FallbackHistory(qa_history, question, answer)
                     ELSE AnswerHistory(qa_history, question, answer)
    /\ UNCHANGED <<session_state, response>>
    /\ UNCHANGED <<runVars, envVars, storeVars>>

\* QAAgent.answer(question): llm.invoke raises, and so does answer
AnswerRaises(question, retrieved) ==
    /\ requests < MaxAnswers
    /\ requests' = requests + 1
    /\ llm_in' = IF retrieved.raises
                 THEN FallbackMessages(qa_history, question)
                 ELSE Messages(qa_history, question, FormatContext(retrieved.docs))
    /\ UNCHANGED <<session_state, response, qa_history>>
    /\ UNCHANGED <<runVars, envVars, storeVars>>

NextAnswer ==
    \/ \E question \in Questions, retrieved \in RetrievalOutcomes,
          answer \in Answers : Answer(question, retrieved, answer)
    \/ \E question \in Questions, retrieved \in RetrievalOutcomes :
          AnswerRaises(question, retrieved)

SpecAnswer == InitServer /\ [][NextAnswer]_vars

\* One upload, followed to the end of its run. The loop of run_graph runs to
\* its end once started: every superstep whose agent call returns or raises
\* is taken.
NextFirst ==
    \/ \E filename \in Files : requests = 0 /\ UploadFile(filename)
    \/ \E filename \in Files : requests = 0 /\ UploadFileFails(filename)
    \/ Run

FairSpec == Init /\ [][NextFirst]_vars /\ WF_vars(Run)

---------------------------------------------------------------------------
(* The storage tool's calls, as the agents' models make them.              *)

\* the arguments of store_analysis_result: a str with a doc_id; a dict
\* without doc_id and with extra metadata; metadata that overrides "doc_id"
StoreCalls ==
    { StoreArgs("summarizer_agent", "summary",
                PyResult("str", "TCP is reliable.", "\"TCP is reliable.\""),
                "paper.pdf", NoDict),
      StoreArgs("pyq_syllabus_analysis_agent", "analysis",
                PyResult("dict", "{'tcp': 3}", "{\"tcp\": 3}"),
                None, Dict([topic |-> "tcp"])),
      StoreArgs("summarizer_agent", "summary",
                PyResult("str", "OSI has seven layers.", "\"OSI has seven layers.\""),
                "paper.pdf", Dict([doc_id |-> "notes.docx"])) }

Queries == {"osi"}
Ks == {1, 5}
Filters ==
    { NoDict, Dict(<<>>), Dict([type |-> "summary"]), Dict([topic |-> "tcp"]),
      Dict([type |-> "summary", doc_id |-> "paper.pdf"]) }

\* a call of _store_impl(agent_name, result_type, result, doc_id, metadata)
Store(call, timestamp, backend) ==
    /\ Len(vs) < MaxRecords
    /\ LET done == StoreImpl(vs, call, timestamp, backend) IN
           /\ vs' = done.store
           /\ tool_out' = ToolCall("store", backend, <<>>, "", 0, NoDict,
                                   done.out, Len(vs), FALSE)
    /\ UNCHANGED <<filter_kw, doc_out>>
    /\ UNCHANGED <<serverVars, runVars, envVars>>

\* _retrieve_impl(query, k, filter)
Retrieve(query, k, filter, order, backend) ==
    /\ order \in Orders(Len(vs))
    /\ backend = "raises in fallback" => ~filter_kw
    \* a backend that raises at once ranks nothing: one order stands for all
    /\ backend = "raises" => \A i \in 1..Len(vs) : order[i] = i
    /\ tool_out' =
         ToolCall("retrieve", backend, order, query, k, filter,
                  RetrieveImpl(vs, filter_kw, order, backend, query, k, filter),
                  Len(vs), tool_out.op = "store" /\ tool_out.out.raised = "none")
    /\ UNCHANGED <<vs, filter_kw, doc_out>>
    /\ UNCHANGED <<serverVars, runVars, envVars>>

InitStore ==
    /\ ServerInit
    /\ RunIdle
    /\ llm_prev = NoOutput
    /\ llm_free = 0
    /\ vs = <<>>
    /\ filter_kw \in BOOLEAN
    /\ tool_out = NoCall
    /\ doc_out = NoDocCall

NextStore ==
    \/ \E call \in StoreCalls, timestamp \in Timestamps, backend \in StoreAnswers :
          Store(call, timestamp, backend)
    \/ \E query \in Queries, k \in Ks, filter \in Filters,
          order \in UNION { Orders(n) : n \in 0..MaxRecords },
          backend \in BackendAnswers :
          Retrieve(query, k, filter, order, backend)

SpecStore == InitStore /\ [][NextStore]_vars

---------------------------------------------------------------------------
(* Calls of DocumentProcessorTools.process_document, one after another on   *)
(* one collection.                                                          *)

\* calls of process_document and store_metadata in one behaviour
MaxDocuments == 2

\* a book of 67 pages of 3 chunks each: 201 chunks
BookDocs == [d \in 1..67 |-> 3]

DocumentFiles ==
    { File("uploads/", "missing.pdf", Lit("pdf"), FALSE, <<>>),
      File("uploads/", "data.csv", Lit("csv"), TRUE, <<>>),
      File("uploads/", "blank.pdf", Lit("pdf"), TRUE, <<>>),
      File("uploads/", "NOTES.DOCX", Str(0, "docx", TRUE, 0), TRUE, <<1>>),
      File("uploads/", "scan.png", Lit("png"), TRUE, <<0>>),
      File("uploads/", "photo.JPG", Str(0, "jpg", TRUE, 0), TRUE, <<2>>),
      File("uploads/", "book.pdf", Lit("pdf"), TRUE, BookDocs) }

\* the places where a call that stores `batches` batches may fail
FailuresOf(batches) ==
    { Failure(at, 0) : at \in {"none", "load_document", "get_vectordb", "persist"} }
        \cup { Failure("add_documents", b) : b \in 1..batches }

Failures(file) ==
    FailuresOf(Len(Batches(chunk_documents(file,
                   load_document(file, Failure("none", 0)).docs), batch_size)))

\* the arguments of the tool store_metadata: content, type, source
MetadataCalls ==
    { <<Lit("Summary of the notes."), "summary", "NOTES.DOCX">>,
      <<Str(1, "key topics: tcp, osi.", TRUE, 1), "generic", "unknown">>,
      <<Str(1, "", FALSE, 1), "summary", "book.pdf">> }

ProcessDocument(file, fail) ==
    /\ requests < MaxDocuments
    /\ requests' = requests + 1
    /\ LET done == process_document(vs, file, fail) IN
           /\ vs' = done.store
           /\ doc_out' = done.call
    /\ UNCHANGED <<filter_kw, tool_out>>
    /\ UNCHANGED <<session_state, qa_history, llm_in, response>>
    /\ UNCHANGED <<runVars, envVars>>

StoreMetadata(call, fail) ==
    /\ requests < MaxDocuments
    /\ requests' = requests + 1
    /\ LET done == store_metadata(vs, call[1], call[2], call[3], fail) IN
           /\ vs' = done.store
           /\ doc_out' = done.call
    /\ UNCHANGED <<filter_kw, tool_out>>
    /\ UNCHANGED <<session_state, qa_history, llm_in, response>>
    /\ UNCHANGED <<runVars, envVars>>

NextDoc ==
    \/ \E file \in DocumentFiles : \E fail \in Failures(file) :
          ProcessDocument(file, fail)
    \/ \E call \in MetadataCalls, fail \in FailuresOf(1) : StoreMetadata(call, fail)

SpecDoc == InitStore /\ [][NextDoc]_vars

---------------------------------------------------------------------------
(* Properties of the orchestration run.                                    *)

Dispatches == Cardinality({ i \in 1..Len(nodes) : nodes[i] \in Workers })

\* the supervisor's model wrote llm_prev in the latest superstep of the run
SupervisorSpoke ==
    /\ nodes # <<>>
    /\ Last(nodes) = SUPERVISOR
    /\ decision # NoDecision
    /\ error # "AgentError"

\* C1: every run that run_graph starts eventually terminates, whatever the
\* supervisor decides at each step.
C1_RunTerminates == (pc = "stream") ~> (pc = "finished")

\* a run in which the supervisor chose summarizer_agent at every step is over
C1_Witness ==
    /\ pc = "finished"
    /\ Len(nodes) = RecursionLimit
    /\ \A i \in 1..Len(nodes) : nodes[i] \in {SUPERVISOR, "summarizer_agent"}

\* text that is no JSON, an object without next_agent, a name of no agent
MalformedOutputs ==
    ProseOutputs \cup { JsonText(ObjNoNext) }
        \cup { RouteTo(Lit(a)) : a \in {"research_agent", "youtube_summarizer_agent"} }

\* C2: after a malformed supervisor output the run ends at that step without
\* an exception: no worker is dispatched and the history ends with that
\* supervisor message.
C2_Original ==
    (SupervisorSpoke /\ llm_prev \in MalformedOutputs)
        => /\ pc = "stream" => next = END
           /\ pc = "finished" =>
                 /\ error = "none"
                 /\ Last(messages) = AIMessage(SUPERVISOR, llm_prev)

\* C3: what decide_next returns is a key of the path map: an agent of the
\* registry that the graph can dispatch to, or "end".
C3_Original ==
    decision.raised = "none"
        => \E k \in PathKeys :
              /\ decision.ret = Lit(k)
              /\ k = "end" \/ k \in AgentNames

\* C4: decide_next never raises to its caller.
C4_Original == decision.raised \in {"none", "not called"}

\* C5: when the supervisor's decision names a key of the registry other than
\* the supervisor, that agent is the node the graph runs next.
C5_Original ==
    \A a \in Workers :
        (SupervisorSpoke /\ decision.raised = "none" /\ decision.ret = Lit(a))
            => pc = "stream" /\ next = a /\ step <= Stop

\* C6: every worker step comes right after a supervisor step, and a worker
\* that returned is followed by a supervisor step: its output neither picks
\* the next agent nor ends the run.
C6_BackToSupervisor ==
    /\ \A i \in 1..Len(nodes) :
          nodes[i] \in Workers =>
              /\ i > 1 /\ nodes[i - 1] = SUPERVISOR
              /\ i < Len(nodes) => nodes[i + 1] = SUPERVISOR
    /\ (pc = "stream" /\ nodes # <<>> /\ Last(nodes) \in Workers)
          => next = SUPERVISOR /\ step <= Stop
    /\ (pc = "finished" /\ nodes # <<>> /\ Last(nodes) \in Workers)
          => error = "AgentError"

\* a worker returned and the supervisor ran after it
C6_Witness ==
    \E i \in 1..Len(nodes) : nodes[i] \in Workers /\ i < Len(nodes)

\* C7 as stated: the run that the step limit ends has made as many
\* dispatches as the limit allows steps.
C7_Original ==
    (pc = "finished" /\ error = "GraphRecursionError") => Dispatches = RecursionLimit

\* C7, amended: the superstep counter never decreases during a run, never
\* passes the recursion limit by more than one, and a run the limit ends has
\* run RecursionLimit nodes, supervisor steps included: 12 dispatches.
C7_StepBudget ==
    [][ /\ (pc = "stream" /\ pc' = "stream") => step' >= step
        /\ pc' = "stream" => step' <= RecursionLimit + 1
        /\ (pc' = "finished" /\ error' = "GraphRecursionError")
              => /\ step' = RecursionLimit + 1
                 /\ Len(nodes') = RecursionLimit
                 /\ 2 * Dispatches' + 1 = RecursionLimit ]_vars

\* the limit ended a run whose supervisor always chose summarizer_agent
C7_Witness ==
    /\ pc = "finished" /\ error = "GraphRecursionError"
    /\ Dispatches = 12
    /\ \A i \in 1..Len(nodes) : nodes[i] \in {SUPERVISOR, "summarizer_agent"}

\* C8: a run that ends with an exception hands its caller the messages
\* gathered so far.
C8_Original ==
    (pc = "finished" /\ error # "none")
        => ~result.none /\ result.history = messages

\* C14: a superstep in which the storage backend fails inside a tool call
\* does not end the run: no exception leaves the step, and the supervisor
\* runs next.
C14_Original ==
    [][ ( /\ pc = "stream"
          /\ tool_out' # tool_out
          /\ tool_out'.op = "store" /\ tool_out'.out.raised # "none" )
            => pc' = "stream" /\ error' = "none" /\ next' = SUPERVISOR ]_vars

\* the supervisor's latest message is a JSON object whose next_agent is a
\* str that reads `name` once trimmed and lower-cased ("": nothing is left)
NextAgentReads(name) ==
    /\ SupervisorSpoke
    /\ llm_prev.json.t = "dict" /\ llm_prev.json.has
    /\ llm_prev.json.na.vt = "str"
    /\ llm_prev.json.na.str.core = name

\* C16: a next_agent that reads a key of the path map once trimmed and
\* lower-cased is routed to that key's node, and an empty or whitespace-only
\* next_agent is routed to "end".
C16_TrimmedLowered ==
    /\ \A k \in PathKeys :
          NextAgentReads(k)
              => /\ decision = Returned(Lit(k))
                 /\ next = PathMap[k]
                 /\ error \in {"none", "GraphRecursionError"}
    /\ NextAgentReads("")
          => /\ decision = Returned(Lit("end"))
             /\ next = END
             /\ error \in {"none", "GraphRecursionError"}

\* the supervisor wrote " Summarizer_Agent " and the summarizer runs next
C16_Witness ==
    /\ NextAgentReads("summarizer_agent")
    /\ llm_prev.json.na.str = Str(1, "summarizer_agent", TRUE, 1)
    /\ pc = "stream" /\ next = "summarizer_agent"

\* the messages of the supervisor in the history, in order
SupervisorMessages ==
    LET bySupervisor(m) == m.type = "ai" /\ m.name = SUPERVISOR
    IN  SelectSeq(messages, bySupervisor)

\* The run of the upload of paper.pdf in which the supervisor routed to
\* document_ingestion_agent first and to "end" next.
PaperScenario ==
    /\ pc \in {"stream", "finished"}
    /\ messages[1] = InputState(FileLocation("paper.pdf"))[1]
    /\ Len(SupervisorMessages) >= 2
    /\ SupervisorMessages[1].content
          = JsonText(Obj(StrVal(Lit("document_ingestion_agent"))))
    /\ SupervisorMessages[2].content = JsonText(Obj(StrVal(Lit("end"))))

\* C17 as stated: the scenario's final history holds four messages: the
\* seed, the routing message, the ingestion result, the final routing
\* message.
C17_Original ==
    (PaperScenario /\ pc = "finished")
        => /\ Len(messages) = 4
           /\ messages[1].type = "human"
           /\ messages[2] = SupervisorMessages[1]
           /\ messages[3].type = "ai"
           /\ messages[3].name = AgentName["document_ingestion_agent"]
           /\ messages[4] = SupervisorMessages[2]

\* a message of the ingestion agent's loop: a message of its model, or
\* the message of one of its tools
FromIngestion(m) ==
    \/ m.type = "ai" /\ m.name = AgentName["document_ingestion_agent"]
    \/ m.type = "tool" /\ m.name \in Tools["document_ingestion_agent"]

\* C17, amended: in the scenario the nodes run are the supervisor, the
\* ingestion agent once, the supervisor; the run ends without an error and
\* its history is the seed, the routing message, the messages the ingestion
\* agent returned (every message of its loop, at least one: they begin and
\* end with a message of its model, and tool messages lie between), the
\* final routing message.
C17_Scenario ==
    PaperScenario
        => /\ nodes = <<SUPERVISOR, "document_ingestion_agent", SUPERVISOR>>
           /\ next = END /\ error = "none"
           /\ Len(SupervisorMessages) = 2
           /\ Len(messages) >= 4
           /\ messages[1] = InputState(FileLocation("paper.pdf"))[1]
           /\ messages[2] = SupervisorMessages[1]
           /\ messages[Len(messages)] = SupervisorMessages[2]
           /\ \A i \in 3..(Len(messages) - 1) : FromIngestion(messages[i])
           /\ messages[3].type = "ai"
           /\ messages[Len(messages) - 1].type = "ai"

\* the scenario has ended after an ingestion step of two rounds of tool
\* calls
C17_Witness ==
    /\ PaperScenario /\ pc = "finished"
    /\ Len(messages) = 8
    /\ messages[4].name = "process_document"
    /\ messages[6].name = "store_metadata"

\* C20: a supervisor that answers with a name its instructions list is
\* routed: the name is a key of the path map and the step raises no
\* KeyError.
C20_Original ==
    \A a \in PromptAgents :
        (SupervisorSpoke /\ llm_prev = RouteTo(Lit(a)))
            => /\ a \in PathKeys
               /\ error # "KeyError"
               /\ next = PathMap[a]

---------------------------------------------------------------------------
(* Properties of the handlers.                                             *)

\* C9: an upload of a video URL starts a run of the graph seeded with the URL.
C9_Original ==
    [][ session_state'.youtube_url # session_state.youtube_url
          => /\ pc' = "stream"
             /\ messages' = InputState(session_state'.youtube_url) ]_vars

\* C10: the messages handed to the model for one chat request hold nothing
\* of another request: the system prompt and the request's own question.
C10_Original ==
    \A i \in 1..Len(llm_in) : llm_in[i].type = "system" \/ i = Len(llm_in)

\* the last message of a model call of QAAgent.answer that had no context:
\* the retriever returned no document, or raised
NoContext(m) ==
    \/ m.content.parts[1] = "Retrieval failed; answering without grounding.\n"
    \/ m.content.parts[2] = "(no relevant context found)"

\* C15: a chat request whose retrieval returns no document or raises still
\* calls the model, with the system prompt and the question; when the model
\* returns, its text is the answer of the request and the question and the
\* answer are the two newest entries of the agent's history.
C15_NoContextAnswered ==
    [][ ( /\ session_state'.chat_history # session_state.chat_history
          /\ NoContext(Last(llm_in')) )
            => LET question == Last(Last(llm_in').content.parts)
                   n == Len(qa_history')
               IN  /\ llm_in'[1].type = "system"
                   /\ Last(llm_in').type = "human"
                   /\ question = Last(session_state'.chat_history)[2]
                         \/ question = session_state'.chat_history[
                                Len(session_state'.chat_history) - 1][2]
                   /\ response'.code = 200
                         => /\ response'.status = "success"
                            /\ n >= 2
                            /\ qa_history'[n - 1] = HumanMessage(Text(<<question>>))
                            /\ qa_history'[n] = AIMessage(None, Text(response'.message))
                            /\ SubSeq(qa_history', 1, n - 2)
                                  = LastN(qa_history, n - 2) ]_vars

\* the retriever raised during the second chat request, which was answered
C15_Witness ==
    /\ response.code = 200 /\ response.status = "success"
    /\ llm_in # <<>>
    /\ Last(llm_in).content.parts[1] = "Retrieval failed; answering without grounding.\n"
    /\ Len(qa_history) = 4
    /\ Last(qa_history) = AIMessage(None, Text(response.message))

\* C22: the entries of chat_history are ("user", question), ("agent",
\* answer) in turn, every user entry followed by its agent entry once the
\* request is over, also when the answer attempt failed; a request with an
\* empty or whitespace-only message is answered 400 and leaves chat_history
\* as it was.
C22_Original ==
    [][ /\ LET h == session_state'.chat_history IN
            /\ Len(h) % 2 = 0
            /\ \A i \in 1..Len(h) :
                  h[i][1] = (IF i % 2 = 1 THEN "user" ELSE "agent")
        /\ (requests' = requests + 1 /\ response' = Response(400, "error", <<"Empty message.">>))
              => session_state'.chat_history = session_state.chat_history ]_vars

\* C21: the history of the question-answering agent never holds more than
\* 2 * max_history messages, whichever paths the calls of answer took.
C21_Original == Len(qa_history) <= 2 * max_history

---------------------------------------------------------------------------
(* Properties of the storage tool.                                         *)

\* C11: a retrieve during which the backend raised returns a result with an
\* empty results list: it does not raise.
C11_Original ==
    (tool_out.op = "retrieve" /\ tool_out.backend # "answers")
        => /\ tool_out.out.raised = "none"
           /\ tool_out.out.results = <<>>

\* the record a _store_impl that just returned has added
StoredRecord == vs[Len(vs)]

\* C12: a retrieve that follows a store at once, with a filter that the
\* stored record's metadata satisfies, returns a results list holding that
\* record.
C12_Original ==
    ( /\ tool_out.op = "retrieve" /\ tool_out.after_store
      /\ tool_out.backend = "answers"
      /\ DictTruthy(tool_out.filter)
      /\ Match(StoredRecord.metadata, tool_out.filter.d) )
        => \E i \in 1..Len(tool_out.out.results) :
              /\ tool_out.out.results[i].content = StoredRecord.page_content
              /\ tool_out.out.results[i].metadata = StoredRecord.metadata

\* C13: no step changes or removes a record of the collection, and a store
\* call that returns has added exactly one record.
C13_AppendOnly ==
    [][ /\ Len(vs') >= Len(vs)
        /\ SubSeq(vs', 1, Len(vs)) = vs
        /\ (tool_out'.op = "store" /\ tool_out'.out.raised = "none")
              => Len(vs') = tool_out'.before + 1 ]_vars

\* two store calls with the same arguments at the same time have left two
\* records
C13_Witness ==
    /\ tool_out.op = "store" /\ tool_out.out.raised = "none"
    /\ Len(vs) = 2
    /\ vs[1].page_content = vs[2].page_content
    /\ vs[1].metadata = vs[2].metadata

\* C18: a retrieve on the empty collection returns {"query": q,
\* "results": []}, whatever q, k and the filter.
C18_EmptyStore ==
    (tool_out.op = "retrieve" /\ vs = <<>> /\ tool_out.backend = "answers")
        => tool_out.out = ToolReturn(tool_out.query, <<>>, <<>>)

\* a retrieve with a filter and k = 5 on the empty collection
C18_Witness ==
    /\ tool_out.op = "retrieve" /\ vs = <<>> /\ tool_out.backend = "answers"
    /\ tool_out.query = "osi" /\ tool_out.k = 5 /\ DictTruthy(tool_out.filter)

\* C19: a retrieve that returns echoes the query and lists at most k
\* entries, ranked 1, 2, ..., n, which are records of the collection in the
\* backend's order; with a filter, the metadata of every entry holds the
\* filter's value under every key of the filter.
C19_RankedFiltered ==
    (tool_out.op = "retrieve" /\ tool_out.out.raised = "none")
        => LET r == tool_out.out.results
               ranked == [i \in 1..Len(vs) |-> vs[tool_out.order[i]]]
           IN  /\ tool_out.out.query = tool_out.query
               /\ Len(r) <= tool_out.k
               /\ \A i \in 1..Len(r) : r[i].rank = i
               /\ \E f \in [1..Len(r) -> 1..Len(vs)] :
                     /\ \A i, j \in 1..Len(r) : i < j => f[i] < f[j]
                     /\ \A i \in 1..Len(r) :
                           /\ r[i].content = ranked[f[i]].page_content
                           /\ r[i].metadata = ranked[f[i]].metadata
               /\ ~tool_out.filter.none
                     => \A i \in 1..Len(r) : \A kf \in DOMAIN tool_out.filter.d :
                           /\ kf \in DOMAIN r[i].metadata
                           /\ r[i].metadata[kf] = tool_out.filter.d[kf]

\* on the fallback path, the manual filter has dropped the first of the
\* backend's two records and kept the second, as rank 1
C19_Witness ==
    /\ tool_out.op = "retrieve" /\ tool_out.out.raised = "none"
    /\ ~filter_kw /\ DictTruthy(tool_out.filter)
    /\ Len(vs) = 2 /\ tool_out.k = 5
    /\ ~Match(vs[tool_out.order[1]].metadata, tool_out.filter.d)
    /\ Len(tool_out.out.results) = 1

\* C23: after a store call that returned, the metadata of the record it
\* added holds the call's result_type, agent_name and doc_id (the values
\* its confirmation reports) under "type", "agent_name" and "doc_id".
C23_Original ==
    (tool_out.op = "store" /\ tool_out.out.raised = "none")
        => /\ StoredRecord.metadata.type = tool_out.out.text[2]
           /\ StoredRecord.metadata.agent_name = tool_out.out.text[4]
           /\ StoredRecord.metadata.doc_id = tool_out.out.text[6]

\* C24: process_document never raises; when it returns an error result no
\* chunk of the document has been added to the store, and when it returns
\* success every chunk has been added exactly once, in batches of at most
\* batch_size.
C24_Original ==
    doc_out.op = "process_document" =>
        /\ doc_out.raised = "none"
        /\ doc_out.out.error # <<>> => Len(vs) = doc_out.before
        /\ doc_out.out.status = "success" =>
              /\ \A c \in 1..Len(doc_out.chunks) :
                    Cardinality({ i \in (doc_out.before + 1)..Len(vs) :
                                    /\ vs[i].page_content = doc_out.chunks[c].page_content
                                    /\ vs[i].metadata = doc_out.chunks[c].metadata }) = 1
              /\ Len(vs) = doc_out.before + Len(doc_out.chunks)
              /\ \A b \in 1..Len(doc_out.added) : doc_out.added[b] <= batch_size

====
